---- MODULE Spec2Model ----
(***************************************************************************)
(* The two clients of the JWT authentication demo:                         *)
(*   - the extension popup (src/popup.js), whose token pair lives in       *)
(*     chrome.storage.local under 'auth_tokens';                           *)
(*   - the web page (src/index.html, lines 107-375), whose token pair      *)
(*     lives in two script variables mirrored in localStorage.             *)
(* A behaviour is one run of one client (variable variant).  Every async   *)
(* handler is a task: a record in a slot of tasks, advanced by one action  *)
(* per await.  The action that resumes a task runs its code up to the next *)
(* await, as a JavaScript continuation does.  The server is an opaque      *)
(* collaborator: every response is a nondeterministic choice.              *)
(*                                                                         *)
(* A request is answered in two resumptions where the handler reads the    *)
(* body: `await fetch(..)` resolves with the response (X_responded), then  *)
(* `await response.json()` resolves or rejects (X_fetched).  Where fetch   *)
(* rejects, or the handler does not read the body, the handler runs on     *)
(* from the first.  A chrome.storage operation takes effect in the step    *)
(* that resumes its caller.  Writes to chrome.storage and to localStorage  *)
(* succeed; a read of chrome.storage can fail with                         *)
(* chrome.runtime.lastError (popup.js:138).                                *)
(***************************************************************************)
EXTENDS Integers, Sequences, FiniteSets, TLC

(* ---------------------------------------------------------------- bounds *)
\* Number of handler invocations that can be in flight at once.
MaxTasks == 2
\* Distinct token pairs the server hands out.
NumPairs == 2
\* Largest `exp` claim (in seconds) the server puts in an access token.
MaxExp == 1
\* Calls of setStatus in one run of the status line.
MaxStatusCalls == 3
\* Handler invocations (each calls setStatus once) in one run of the popup.
MaxHandlerRuns == 2
\* Latest clock reading (ms) at which setStatus is called in a run of the
\* status line.
MaxClock == 5000
\* How long (ms) after the instant a timer is due the popup is looked at
\* again at the latest.
MaxLate == 1

(* ------------------------------------------------------ program constants *)
\* popup.js:132  payload.exp * 1000
MsPerSecond == 1000
\* popup.js:45   password.length < 8
MinPasswordLength == 8
\* popup.js:220  setTimeout(.., 5000)
StatusHideDelay == 5000

Slots == 1..MaxTasks
PairIds == 1..NumPairs

(* ---------------------------------------------------------------- tokens *)
\* A token string, by what the clients do with it: compare it, send it, and
\* (popup.js only) split it on '.', base64-decode and JSON-parse segment 1.
\* enc = "jwt": segment 1 decodes to a JSON object with a numeric exp.
\* enc = "opaque": there is no such segment (atob or JSON.parse throws).
Undefined == [id |-> 0, use |-> "none", enc |-> "undefined", exp |-> 0]
EmptyString == [id |-> 0, use |-> "none", enc |-> "empty", exp |-> 0]
UndefinedString == [id |-> 0, use |-> "none", enc |-> "opaque", exp |-> 0]
\* localStorage.getItem of a key that is not there.
Null == [id |-> 0, use |-> "none", enc |-> "null", exp |-> 0]

\* What localStorage.setItem stores for a value: its string.
StringOf(v) == IF v = Undefined THEN UndefinedString ELSE v

\* v || ''
OrEmpty(v) == IF v \in {Null, Undefined, EmptyString} THEN EmptyString ELSE v

\* !!v
Truthy(v) == v \notin {Null, Undefined, EmptyString}

AccessTokens ==
    [id : PairIds, use : {"access"}, enc : {"jwt"}, exp : 1..MaxExp]
    \cup [id : PairIds, use : {"access"}, enc : {"opaque"}, exp : {0}]

RefreshTokenOf(k) == [id |-> k, use |-> "refresh", enc |-> "jwt", exp |-> 0]

RefreshTokens == {RefreshTokenOf(k) : k \in PairIds}

\* The token pairs one authenticate or refresh response can carry: both
\* tokens of one issue, or a body that lacks the two fields.
IssuedPairs ==
    {[access |-> a, refresh |-> RefreshTokenOf(a.id)] : a \in AccessTokens}

ResponsePairs == IssuedPairs \cup {[access |-> Undefined, refresh |-> Undefined]}

\* Date.now() readings around every expiry the server can issue.
Times == UNION {{e * MsPerSecond - 1, e * MsPerSecond, e * MsPerSecond + 1} : e \in 1..MaxExp}

(* ------------------------------------------------------------ HTTP answers *)
\* What `await fetch(..)` then `await response.json()` can produce:
\* net = "throw": fetch rejects; json = FALSE: response.json() rejects;
\* otherwise an HTTP status and a body with a status field and, on the token
\* endpoints, a token pair.
Statuses == {200, 401, 500}

\* response.ok, and its negation.
OkStatuses == {s \in Statuses : s >= 200 /\ s <= 299}

ErrorStatuses == Statuses \ OkStatuses

ResponseOk(r) == r.status >= 200 /\ r.status <= 299

NoPair == [access |-> Undefined, refresh |-> Undefined]

Responses ==
    {[net |-> "throw", status |-> 0, json |-> FALSE, st |-> "error", pair |-> NoPair]}
    \cup [net : {"ok"}, status : Statuses, json : {FALSE}, st : {"error"}, pair : {NoPair}]
    \cup [net : {"ok"}, status : Statuses, json : {TRUE}, st : {"error"}, pair : {NoPair}]
    \cup [net : {"ok"}, status : Statuses, json : {TRUE}, st : {"ok"}, pair : ResponsePairs]

(* ------------------------------------------------------------ user input *)
\* The text of an input field is a sequence of characters.
RECURSIVE TrimStart(_)
TrimStart(s) == IF s # <<>> /\ Head(s) = " " THEN TrimStart(Tail(s)) ELSE s

RECURSIVE TrimEnd(_)
TrimEnd(s) ==
    IF s # <<>> /\ s[Len(s)] = " " THEN TrimEnd(SubSeq(s, 1, Len(s) - 1)) ELSE s

\* Mutant: the field is taken as typed.
Trim_none(s) == s

\* String.prototype.trim
Trim(s) == TrimEnd(TrimStart(s))

Chars(n) == [k \in 1..n |-> "x"]

Usernames == {<<>>, <<" ">>, <<" ", "a", " ">>}
Passwords == {Chars(0), Chars(1), Chars(MinPasswordLength - 1), Chars(MinPasswordLength)}

(* ---------------------------------------------------------- status texts *)
MsgNone == "(none)"
MsgNoTokens == "No tokens found. Please login."
MsgRefreshFailed == "Failed to refresh token: "
MsgNetwork == "(fetch error)"
MsgBody == "(body error)"
MsgDecode == "(token decode error)"
MsgStorage == "(chrome.runtime.lastError)"
MsgProtectedOk == "(protected message)"
MsgProtectedFailed == "Failed to access protected resource: "
MsgEnterRegister == "Please enter a username and password."
MsgPasswordShort == "Password must be at least 8 characters long."
MsgRegistered == "Registration successful."
MsgRegisterFailed == "Registration failed: "
MsgEnterLogin == "Please enter your username and password."
MsgAuthenticated == "Authentication successful."
MsgAuthFailed == "Authentication failed: "
MsgLoggedOut == "Logged out successfully."

(* ----------------------------------------------------------------- state *)
VARIABLES
    variant,        \* "popup" or "web": which client this run is
    tasks,          \* slot -> the handler invocation in it
    auth_tokens,    \* popup: chrome.storage.local 'auth_tokens'
    username,       \* localStorage 'username'
    logoutHidden,   \* popup: #logout has class 'hidden'
    initPc,         \* popup: checkLoginStatus of init(): "get" or "done"
    accessToken,    \* web: let accessToken
    refreshToken,   \* web: let refreshToken
    lsAccess,       \* web: localStorage 'accessToken'
    lsRefresh,      \* web: localStorage 'refreshToken'
    authHidden,     \* web: #authSection has class 'hidden'
    welcomeHidden,  \* web: #welcomeSection has class 'hidden'
    quiet,          \* history: logout() has completed and no register,
                    \* login or logout was pending then or has started since
    statusText,     \* popup: textContent of #status
    statusClasses,  \* popup: classList of #status
    statusTimeout,  \* popup: let statusTimeout (0: undefined)
    timers,         \* popup: the pending timers, each [id, due]
    nextTimer,      \* the id the next setTimeout returns
    now,            \* the clock, in ms
    shownAt         \* history: the clock at the last setStatus call

webVars == <<accessToken, refreshToken, lsAccess, lsRefresh, authHidden, welcomeHidden>>

statusVars == <<statusText, statusClasses, statusTimeout, timers, nextTimer, now, shownAt>>

vars == <<variant, tasks, auth_tokens, username, logoutHidden, initPc, webVars, quiet,
          statusVars>>

NoEntry == [access_token |-> Undefined, refresh_token |-> Undefined, access_token_expiry |-> -1]
NoKey == <<"(absent)">>

\* How an answer to a request looks from outside the client.
Classify(r) ==
    IF r.net = "throw" THEN "threw"
    ELSE IF ~(r.status \in 200..299) THEN "non2xx"
    ELSE IF ~r.json THEN "unreadable"
    ELSE IF r.st # "ok" THEN "notok"
    ELSE IF r.pair.access.enc = "jwt" THEN "ok"
    ELSE "okopaque"

\* The stored expiry against the clock, as the user would state it.
Compare(expiry, time) ==
    IF expiry < time THEN "earlier" ELSE IF expiry = time THEN "equal" ELSE "later"

\* One handler invocation.  held and uname are its local variables; headers
\* is the HTTP status of the response whose body it is reading (it stands
\* at `await response.json()`), 0 when there is none; sent is the token
\* carried by its outstanding request (the Authorization bearer, or the
\* refresh_token of a /refresh body).  The other fields are history, read
\* by no action:
\*   calls    the endpoints it has requested, in order
\*   answers  how many of those requests have been answered
\*   msg, type, outcome   the message it showed, and how it returned
\*   statusCalls   how many times it has called setStatus (popup) or alert
\*            with a result (web)
\*   found    popup: what the cache read found ("absent", "error", or the
\*            stored expiry against the clock)
\*   first    web: the first answer of authenticatedFetch, and on a 401
\*            whether a refresh token was held then; popup: the answer to
\*            GET /protected ("threw", "401", "other")
\*   answer   the answer of /register, /authenticate or /refresh
\*   got      the pair in that answer, while the handler uses it
\*   stale    its token request was in flight when a logout completed
\*   lateWrite   it wrote the token cache being stale
\*   afterLogout   it started in a quiet state
\*   presented   web: the refresh token authenticatedFetch sent to /refresh
\*   retried  web: the answer to the request authenticatedFetch sent again
\*   typed    the username field as typed and the length of the password
\*            field, at the click of register or login
NoInput == [u |-> <<"(none)">>, p |-> -1]

IdleTask ==
    [kind |-> "idle", pc |-> "idle", calls |-> <<>>, answers |-> 0, msg |-> MsgNone,
     type |-> "none", held |-> NoEntry, found |-> "none", uname |-> <<>>,
     stale |-> FALSE, lateWrite |-> FALSE, outcome |-> "none", sent |-> Undefined,
     first |-> "none", answer |-> "none", got |-> NoPair, afterLogout |-> FALSE,
     typed |-> NoInput, retried |-> "none", presented |-> Undefined,
     statusCalls |-> 0, headers |-> 0]

NewTask(kind, pc) == [IdleTask EXCEPT !.kind = kind, !.pc = pc]

\* Slot i takes the next invocation: the lowest slot whose task has ended.
IsOver(t) == t.pc \in {"idle", "done"}

Free(i) == IsOver(tasks[i]) /\ \A j \in 1..(i - 1) : ~IsOver(tasks[j])

\* A handler returns having called setStatus(msg, type).
Ended(t, msg, type) ==
    [t EXCEPT !.pc = "done", !.msg = msg, !.type = type,
              !.statusCalls = @ + 1,
              !.held = NoEntry, !.uname = <<>>, !.sent = Undefined, !.headers = 0,
              !.got = NoPair, !.stale = FALSE, !.lateWrite = FALSE]

\* A handler rejects with an error it does not show: no setStatus, no alert.
Threw(t, msg) ==
    [t EXCEPT !.pc = "done", !.msg = msg, !.type = "throw", !.outcome = "threw",
              !.held = NoEntry, !.uname = <<>>, !.sent = Undefined, !.headers = 0,
              !.got = NoPair, !.stale = FALSE, !.lateWrite = FALSE]

\* A handler returns (or rejects) without a status message.
Returned(t) ==
    [t EXCEPT !.pc = "done", !.held = NoEntry, !.uname = <<>>, !.sent = Undefined,
              !.headers = 0, !.got = NoPair, !.stale = FALSE, !.lateWrite = FALSE]

\* The record of an invocation that has returned is kept for one step:
\* a step of slot i forgets the others, a step of no handler (i = 0) all.
Forget(i) ==
    [j \in Slots |-> IF j # i /\ tasks[j].pc = "done" THEN IdleTask ELSE tasks[j]]

\* Slot i goes on as t.
Resume(i, t) == tasks' = [Forget(i) EXCEPT ![i] = t]

\* `await fetch(..)` resolves in slot i with a response whose status is in
\* bodyRead: the handler resumes, calls response.json() and awaits it.
Responded(i, bodyRead) ==
    /\ tasks[i].headers = 0
    /\ \E s \in bodyRead : Resume(i, [tasks[i] EXCEPT !.headers = s])

\* The answers on which the handler in t resumes and runs on: fetch has
\* rejected, or resolved with a status whose body the handler does not read
\* (not in bodyRead), or response.json() has resolved or rejected for the
\* response it holds.
Arrived(t, bodyRead) ==
    IF t.headers = 0
    THEN {r \in Responses : r.net = "throw" \/ r.status \notin bodyRead}
    ELSE {r \in Responses : r.net = "ok" /\ r.status = t.headers}

(* ----------------------------------------------------- the status line *)
statusLine == <<statusText, statusClasses, statusTimeout, timers, nextTimer, shownAt>>

\* clearTimeout(handle)
clearTimeout(handle) == {r \in timers : r.id # handle}

\* Mutant: the earlier timer is left pending.
setStatus_noClear(message, type) ==
    /\ statusText' = message
    /\ statusClasses' = {IF type = "error" THEN "error" ELSE "success", "show"}
    /\ timers' = timers \cup {[id |-> nextTimer, due |-> now' + StatusHideDelay]}
    /\ statusTimeout' = nextTimer
    /\ nextTimer' = nextTimer + 1
    /\ shownAt' = now'

\* setStatus(message, type), called at the instant now'.
setStatus(message, type) ==
    /\ statusText' = message
    /\ statusClasses' = {IF type = "error" THEN "error" ELSE "success", "show"}
    /\ timers' = clearTimeout(statusTimeout)
                    \cup {[id |-> nextTimer, due |-> now' + StatusHideDelay]}
    /\ statusTimeout' = nextTimer
    /\ nextTimer' = nextTimer + 1
    /\ shownAt' = now'

\* The callback of a timer, run at the instant it is due or later:
\* statusDiv.classList.remove('show').
hideStatus(r) ==
    /\ r \in timers
    /\ r.due <= now
    /\ timers' = timers \ {r}
    /\ statusClasses' = statusClasses \ {"show"}
    /\ tasks' = Forget(0)
    /\ UNCHANGED <<variant, auth_tokens, username, logoutHidden, initPc,
                   webVars, quiet, statusText, statusTimeout, nextTimer, now, shownAt>>

\* Time passes, whether or not a timer is pending, up to one tick after the
\* last instant a timer can be due.
StatusTick == StatusHideDelay \div 2

tick ==
    /\ now <= MaxClock + StatusHideDelay
    /\ now' = now + StatusTick
    /\ tasks' = Forget(0)
    /\ UNCHANGED <<variant, auth_tokens, username, logoutHidden, initPc,
                   webVars, quiet, statusText, statusClasses, statusTimeout, timers,
                   nextTimer, shownAt>>

\* The event loop runs the callback of a pending timer that is due or
\* overdue.
timerFires == \E r \in timers : hideStatus(r)

\* The popup is left alone until the instant a pending timer is due, or
\* until up to MaxLate after it, the timer still pending.
elapse ==
    /\ variant = "popup"
    /\ \E r \in timers, late \in {0, MaxLate} :
         /\ now < r.due + late
         /\ now' = r.due + late
    /\ tasks' = Forget(0)
    /\ UNCHANGED <<variant, auth_tokens, username, logoutHidden, initPc,
                   webVars, quiet, statusLine>>

\* The status line after a step of the handler in slot i: the handler has
\* called setStatus with the message it ended on, or has not called it.
Reports(i) ==
    IF tasks'[i].pc = "done" /\ tasks'[i].statusCalls = 1
    THEN setStatus(tasks'[i].msg, tasks'[i].type)
    ELSE UNCHANGED statusLine

\* A click starts a handler while the setStatus calls made, and those the
\* pending handlers will make, stay within MaxHandlerRuns.
StatusBudget ==
    nextTimer + Cardinality({j \in Slots : ~IsOver(tasks[j])}) <= MaxHandlerRuns

\* What Date.now() can return: the clock as it is, or a later instant
\* around an expiry, whether or not a timer is due before it.
Readings == {now} \cup {t \in Times : t > now}

(* ================================================================ popup.js *)

\* Mutant: the exp claim taken as it is, in seconds.
getTokenExpiry_seconds(token) ==
    IF token.enc = "jwt"
    THEN [threw |-> FALSE, value |-> token.exp]
    ELSE [threw |-> TRUE, value |-> 0]

\* Mutant: a token whose payload cannot be decoded yields expiry 0 instead
\* of an exception.
getTokenExpiry_lenient(token) ==
    IF token.enc = "jwt"
    THEN [threw |-> FALSE, value |-> token.exp * MsPerSecond]
    ELSE [threw |-> FALSE, value |-> 0]

\* getTokenExpiry(token): [threw, value]
getTokenExpiry(token) ==
    IF token.enc = "jwt"
    THEN [threw |-> FALSE, value |-> token.exp * MsPerSecond]
    ELSE [threw |-> TRUE, value |-> 0]

\* Mutant: only the access token is replaced; the refresh token written is
\* the one of the first pair issued.
storeTokens_keepRefresh(access, refresh) ==
    [access_token |-> access,
     refresh_token |-> RefreshTokenOf(1),
     access_token_expiry |-> getTokenExpiry(access).value]

\* The object storeTokens builds (popup.js:121-125).
storeTokens(access, refresh) ==
    [access_token |-> access,
     refresh_token |-> refresh,
     access_token_expiry |-> getTokenExpiry(access).value]

\* Mutant: a token counts as expired at its expiry instant already.
Expired_atExpiry(currentTime, tokens) == currentTime >= tokens.access_token_expiry

\* getAccessToken's test (popup.js:156).
Expired(currentTime, tokens) == currentTime > tokens.access_token_expiry

\* response.ok && result.status === 'ok'
Accepted(r) == ResponseOk(r) /\ r.st = "ok"

\* init() -> checkLoginStatus(), after its await getStoredTokens().
checkLoginStatus ==
    /\ variant = "popup"
    /\ initPc = "get"
    /\ initPc' = "done"
    /\ \E lastError \in BOOLEAN :
         logoutHidden' = (lastError \/ auth_tokens = NoEntry)
    /\ tasks' = Forget(0)
    /\ UNCHANGED <<variant, statusVars, webVars, quiet, auth_tokens, username>>

\* Mutant: register without the password length check.
register_noLengthCheck(i) ==
    /\ variant = "popup"
    /\ Free(i)
    /\ StatusBudget
    /\ \E u \in Usernames, password \in Passwords :
         LET uname == Trim(u)
             t == [NewTask("register", "register") EXCEPT !.uname = uname,
                      !.typed = [u |-> u, p |-> Len(password)]]
         IN  IF uname = <<>> \/ password = <<>>
             THEN Resume(i, Ended(t, MsgEnterRegister, "error"))
             ELSE Resume(i, [t EXCEPT !.calls = <<"register">>])
    /\ quiet' = FALSE
    /\ UNCHANGED <<variant, now, webVars, auth_tokens, username, logoutHidden, initPc>>
    /\ Reports(i)

\* register(): the click, up to the fetch.
register(i) ==
    /\ variant = "popup"
    /\ Free(i)
    /\ StatusBudget
    /\ \E u \in Usernames, password \in Passwords :
         LET uname == Trim(u)
             t == [NewTask("register", "register") EXCEPT !.uname = uname,
                      !.typed = [u |-> u, p |-> Len(password)]]
         IN  IF uname = <<>> \/ password = <<>>
             THEN Resume(i, Ended(t, MsgEnterRegister, "error"))
             ELSE IF Len(password) < MinPasswordLength
             THEN Resume(i, Ended(t, MsgPasswordShort, "error"))
             ELSE Resume(i, [t EXCEPT !.calls = <<"register">>])
    /\ quiet' = FALSE
    /\ UNCHANGED <<variant, now, webVars, auth_tokens, username, logoutHidden, initPc>>
    /\ Reports(i)

\* register(): fetch has resolved (popup.js:52); on to response.json() (63).
register_responded(i) ==
    /\ variant = "popup"
    /\ tasks[i].kind = "register" /\ tasks[i].pc = "register"
    /\ Responded(i, Statuses)
    /\ UNCHANGED <<variant, statusVars, webVars, quiet, auth_tokens, username, logoutHidden, initPc>>

\* Mutant: a register that is not accepted is sent once more.
register_fetched_retry(i) ==
    /\ variant = "popup"
    /\ tasks[i].kind = "register" /\ tasks[i].pc = "register"
    /\ \E r \in Arrived(tasks[i], Statuses) :
         LET t == [tasks[i] EXCEPT !.answers = @ + 1, !.headers = 0, !.answer = Classify(r)] IN
         /\ r.pair = NoPair
         /\ IF r.net # "throw" /\ r.json /\ Accepted(r)
            THEN /\ username' = t.uname
                 /\ Resume(i, Ended(t, MsgRegistered, "success"))
            ELSE IF Len(t.calls) = 1
            THEN /\ Resume(i, [t EXCEPT !.calls = Append(@, "register")])
                 /\ UNCHANGED username
            ELSE /\ Resume(i, Ended(t, MsgRegisterFailed, "error"))
                 /\ UNCHANGED username
    /\ UNCHANGED <<variant, now, webVars, quiet, auth_tokens, logoutHidden, initPc>>
    /\ Reports(i)

\* Mutant: an accepted register also removes the auth_tokens entry.
register_fetched_dropsPair(i) ==
    /\ variant = "popup"
    /\ tasks[i].kind = "register" /\ tasks[i].pc = "register"
    /\ \E r \in Arrived(tasks[i], Statuses) :
         LET t == [tasks[i] EXCEPT !.answers = @ + 1, !.headers = 0, !.answer = Classify(r)] IN
         /\ r.pair = NoPair
         /\ IF r.net = "throw" \/ ~r.json
            THEN /\ Resume(i, Ended(t, MsgRegisterFailed, "error"))
                 /\ UNCHANGED <<username, auth_tokens>>
            ELSE IF Accepted(r)
            THEN /\ username' = t.uname
                 /\ auth_tokens' = NoEntry
                 /\ Resume(i, Ended(t, MsgRegistered, "success"))
            ELSE /\ Resume(i, Ended(t, MsgRegisterFailed, "error"))
                 /\ UNCHANGED <<username, auth_tokens>>
    /\ UNCHANGED <<variant, now, webVars, quiet, logoutHidden, initPc>>
    /\ Reports(i)

\* register(): fetch has rejected, or response.json() has resolved or
\* rejected; the rest of the handler.
register_fetched(i) ==
    /\ variant = "popup"
    /\ tasks[i].kind = "register" /\ tasks[i].pc = "register"
    /\ \E r \in Arrived(tasks[i], Statuses) :
         LET t == [tasks[i] EXCEPT !.answers = @ + 1, !.headers = 0, !.answer = Classify(r)] IN
         /\ r.pair = NoPair
         /\ IF r.net = "throw" \/ ~r.json
            THEN /\ Resume(i, Ended(t, MsgRegisterFailed, "error"))
                 /\ UNCHANGED username
            ELSE IF Accepted(r)
            THEN /\ username' = t.uname
                 /\ Resume(i, Ended(t, MsgRegistered, "success"))
            ELSE /\ Resume(i, Ended(t, MsgRegisterFailed, "error"))
                 /\ UNCHANGED username
    /\ UNCHANGED <<variant, now, webVars, quiet, auth_tokens, logoutHidden, initPc>>
    /\ Reports(i)

\* login(): the click, up to the fetch.
login(i) ==
    /\ variant = "popup"
    /\ Free(i)
    /\ StatusBudget
    /\ \E u \in Usernames, password \in Passwords :
         LET uname == Trim(u)
             t == [NewTask("login", "authenticate") EXCEPT !.uname = uname,
                      !.typed = [u |-> u, p |-> Len(password)]]
         IN  IF uname = <<>> \/ password = <<>>
             THEN Resume(i, Ended(t, MsgEnterLogin, "error"))
             ELSE Resume(i, [t EXCEPT !.calls = <<"authenticate">>])
    /\ quiet' = FALSE
    /\ UNCHANGED <<variant, now, webVars, auth_tokens, username, logoutHidden, initPc>>
    /\ Reports(i)

\* login(): fetch has resolved (popup.js:86); on to response.json() (97).
login_responded(i) ==
    /\ variant = "popup"
    /\ tasks[i].kind = "login" /\ tasks[i].pc = "authenticate"
    /\ Responded(i, Statuses)
    /\ UNCHANGED <<variant, statusVars, webVars, quiet, auth_tokens, username, logoutHidden, initPc>>

\* Mutant: a login that is not accepted drops the stored pair and hides the
\* logout button.
login_fetched_dropsPair(i) ==
    /\ variant = "popup"
    /\ tasks[i].kind = "login" /\ tasks[i].pc = "authenticate"
    /\ \E r \in Arrived(tasks[i], Statuses) :
         LET t == [tasks[i] EXCEPT !.answers = @ + 1, !.headers = 0, !.answer = Classify(r),
                                   !.got = r.pair] IN
         IF r.net # "throw" /\ r.json /\ Accepted(r) /\ ~getTokenExpiry(r.pair.access).threw
         THEN /\ Resume(i, [t EXCEPT
                              !.pc = "set",
                              !.held = storeTokens(r.pair.access, r.pair.refresh)])
              /\ UNCHANGED <<auth_tokens, logoutHidden>>
         ELSE /\ Resume(i, Ended(t, MsgAuthFailed, "error"))
              /\ auth_tokens' = NoEntry
              /\ logoutHidden' = TRUE
    /\ UNCHANGED <<variant, now, webVars, quiet, username, initPc>>
    /\ Reports(i)

\* Mutant: a login that is not accepted returns without a status message.
login_fetched_silent(i) ==
    /\ variant = "popup"
    /\ tasks[i].kind = "login" /\ tasks[i].pc = "authenticate"
    /\ \E r \in Arrived(tasks[i], Statuses) :
         LET t == [tasks[i] EXCEPT !.answers = @ + 1, !.headers = 0, !.answer = Classify(r),
                                   !.got = r.pair] IN
         IF r.net = "throw" \/ ~r.json
         THEN Resume(i, Ended(t, MsgAuthFailed, "error"))
         ELSE IF Accepted(r)
         THEN IF getTokenExpiry(r.pair.access).threw
              THEN Resume(i, Ended(t, MsgAuthFailed, "error"))
              ELSE Resume(i, [t EXCEPT
                                !.pc = "set",
                                !.held = storeTokens(r.pair.access, r.pair.refresh)])
         ELSE Resume(i, Returned(t))
    /\ UNCHANGED <<variant, now, webVars, quiet, auth_tokens, username, logoutHidden, initPc>>
    /\ Reports(i)

\* login(): fetch has rejected, or response.json() has resolved or
\* rejected; up to storeTokens' await.
login_fetched(i) ==
    /\ variant = "popup"
    /\ tasks[i].kind = "login" /\ tasks[i].pc = "authenticate"
    /\ \E r \in Arrived(tasks[i], Statuses) :
         LET t == [tasks[i] EXCEPT !.answers = @ + 1, !.headers = 0, !.answer = Classify(r),
                                   !.got = r.pair] IN
         IF r.net = "throw" \/ ~r.json
         THEN Resume(i, Ended(t, MsgAuthFailed, "error"))
         ELSE IF Accepted(r)
         THEN IF getTokenExpiry(r.pair.access).threw
              THEN Resume(i, Ended(t, MsgAuthFailed, "error"))
              ELSE Resume(i, [t EXCEPT
                                !.pc = "set",
                                !.held = storeTokens(r.pair.access, r.pair.refresh)])
         ELSE Resume(i, Ended(t, MsgAuthFailed, "error"))
    /\ UNCHANGED <<variant, now, webVars, quiet, auth_tokens, username, logoutHidden, initPc>>
    /\ Reports(i)

\* login(): chrome.storage.local.set done, then the success branch.
login_stored(i) ==
    /\ variant = "popup"
    /\ tasks[i].kind = "login" /\ tasks[i].pc = "set"
    /\ auth_tokens' = tasks[i].held
    /\ logoutHidden' = FALSE
    /\ Resume(i, [Ended(tasks[i], MsgAuthenticated, "success") EXCEPT
                    !.got = tasks[i].got,
                    !.lateWrite = tasks[i].stale])
    /\ UNCHANGED <<variant, now, webVars, quiet, username, initPc>>
    /\ Reports(i)

\* Mutant: logout also tells the server, with a request of its own.
logout_notifiesServer(i) ==
    /\ variant = "popup"
    /\ Free(i)
    /\ StatusBudget
    /\ Resume(i, [NewTask("logout", "remove") EXCEPT !.afterLogout = quiet,
                                                     !.calls = <<"logout">>])
    /\ quiet' = FALSE
    /\ UNCHANGED <<variant, now, webVars, auth_tokens, username, logoutHidden, initPc>>
    /\ Reports(i)

\* logout(): the click, up to chrome.storage.local.remove's await.
logout(i) ==
    /\ variant = "popup"
    /\ Free(i)
    /\ StatusBudget
    /\ Resume(i, [NewTask("logout", "remove") EXCEPT !.afterLogout = quiet])
    /\ quiet' = FALSE
    /\ UNCHANGED <<variant, now, webVars, auth_tokens, username, logoutHidden, initPc>>
    /\ Reports(i)

\* A request to a token endpoint is in flight.
AwaitingTokens(t) == t.pc \in {"authenticate", "refresh"}

\* Mutant: logout that forgets the username key.
logout_removed_keepsUsername(i) ==
    /\ variant = "popup"
    /\ tasks[i].kind = "logout" /\ tasks[i].pc = "remove"
    /\ auth_tokens' = NoEntry
    /\ logoutHidden' = TRUE
    /\ Resume(i, Ended(tasks[i], MsgLoggedOut, "success"))
    /\ quiet' = (\A j \in Slots \ {i} : IsOver(tasks[j]))
    /\ UNCHANGED <<variant, now, webVars, initPc, username>>
    /\ Reports(i)

\* logout(): the entry is removed, then the rest of the handler.
logout_removed(i) ==
    /\ variant = "popup"
    /\ tasks[i].kind = "logout" /\ tasks[i].pc = "remove"
    /\ auth_tokens' = NoEntry
    /\ username' = NoKey
    /\ logoutHidden' = TRUE
    /\ tasks' = [j \in Slots |->
                   IF j = i THEN Ended(tasks[i], MsgLoggedOut, "success")
                   ELSE IF AwaitingTokens(tasks[j])
                        THEN [tasks[j] EXCEPT !.stale = TRUE]
                        ELSE Forget(i)[j]]
    /\ quiet' = (\A j \in Slots \ {i} : IsOver(tasks[j]))
    /\ UNCHANGED <<variant, now, webVars, initPc>>
    /\ Reports(i)

\* accessProtected(): the click, up to getStoredTokens' await.
accessProtected(i) ==
    /\ variant = "popup"
    /\ Free(i)
    /\ StatusBudget
    /\ Resume(i, [NewTask("accessProtected", "get") EXCEPT !.afterLogout = quiet])
    /\ UNCHANGED <<variant, now, webVars, quiet, auth_tokens, username, logoutHidden, initPc>>
    /\ Reports(i)

\* Mutant: on an expired token the refresh and the protected request are
\* sent together, the refresh not being awaited.
getAccessToken_parallel(i) ==
    /\ variant = "popup"
    /\ tasks[i].kind = "accessProtected" /\ tasks[i].pc = "get"
    /\ auth_tokens # NoEntry
    /\ Resume(i, [tasks[i] EXCEPT
                    !.found = "earlier",
                    !.pc = "protected",
                    !.calls = <<"refresh", "protected">>,
                    !.sent = auth_tokens.access_token])
    /\ UNCHANGED <<variant, now, webVars, quiet, auth_tokens, username, logoutHidden, initPc>>
    /\ Reports(i)

\* Mutant: no check that a pair was found; with none the request is sent
\* with an undefined token.
getAccessToken_noCheck(i) ==
    /\ variant = "popup"
    /\ tasks[i].kind = "accessProtected" /\ tasks[i].pc = "get"
    /\ \E currentTime \in Readings :
         LET t == [tasks[i] EXCEPT
                     !.found = IF auth_tokens = NoEntry THEN "absent"
                               ELSE Compare(auth_tokens.access_token_expiry, currentTime)]
         IN
         /\ now' = currentTime
         /\ IF auth_tokens # NoEntry /\ Expired(currentTime, auth_tokens)
            THEN Resume(i, [t EXCEPT
                              !.pc = "refresh",
                              !.calls = Append(@, "refresh"),
                              !.sent = auth_tokens.refresh_token])
            ELSE Resume(i, [t EXCEPT
                              !.pc = "protected",
                              !.calls = Append(@, "protected"),
                              !.sent = auth_tokens.access_token])
    /\ UNCHANGED <<variant, webVars, quiet, auth_tokens, username, logoutHidden, initPc>>
    /\ Reports(i)

\* getAccessToken() after getStoredTokens: no tokens, refresh, or the
\* cached token; in the last case accessProtected sends GET /protected.
getAccessToken(i) ==
    /\ variant = "popup"
    /\ tasks[i].kind = "accessProtected" /\ tasks[i].pc = "get"
    /\ \E lastError \in BOOLEAN, currentTime \in Readings :
         LET t == [tasks[i] EXCEPT
                     !.found = IF lastError THEN "error"
                               ELSE IF auth_tokens = NoEntry THEN "absent"
                               ELSE Compare(auth_tokens.access_token_expiry, currentTime)]
         IN
         /\ now' = currentTime
         /\ IF lastError
            THEN Resume(i, Ended(t, MsgStorage, "error"))
            ELSE IF auth_tokens = NoEntry
            THEN Resume(i, Ended(t, MsgNoTokens, "error"))
            ELSE IF Expired(currentTime, auth_tokens)
            THEN Resume(i, [t EXCEPT
                              !.pc = "refresh",
                              !.calls = Append(@, "refresh"),
                              !.sent = auth_tokens.refresh_token])
            ELSE Resume(i, [t EXCEPT
                              !.pc = "protected",
                              !.calls = Append(@, "protected"),
                              !.sent = auth_tokens.access_token])
    /\ UNCHANGED <<variant, webVars, quiet, auth_tokens, username, logoutHidden, initPc>>
    /\ Reports(i)

\* refreshAccessToken(): fetch has resolved (popup.js:166); on to
\* response.json() (176).
refreshAccessToken_responded(i) ==
    /\ variant = "popup"
    /\ tasks[i].kind = "accessProtected" /\ tasks[i].pc = "refresh"
    /\ Responded(i, Statuses)
    /\ UNCHANGED <<variant, statusVars, webVars, quiet, auth_tokens, username, logoutHidden, initPc>>

\* refreshAccessToken(): fetch has rejected, or response.json() has
\* resolved or rejected; up to storeTokens' await.
refreshAccessToken(i) ==
    /\ variant = "popup"
    /\ tasks[i].kind = "accessProtected" /\ tasks[i].pc = "refresh"
    /\ \E r \in Arrived(tasks[i], Statuses) :
         LET t == [tasks[i] EXCEPT !.answers = @ + 1, !.headers = 0, !.answer = Classify(r),
                                   !.got = r.pair] IN
         IF r.net = "throw"
         THEN Resume(i, Ended(t, MsgNetwork, "error"))
         ELSE IF ~r.json
         THEN Resume(i, Ended(t, MsgBody, "error"))
         ELSE IF Accepted(r)
         THEN IF getTokenExpiry(r.pair.access).threw
              THEN Resume(i, Ended(t, MsgDecode, "error"))
              ELSE Resume(i, [t EXCEPT
                                !.pc = "set",
                                !.sent = Undefined,
                                !.held = storeTokens(r.pair.access, r.pair.refresh)])
         ELSE Resume(i, Ended(t, MsgRefreshFailed, "error"))
    /\ UNCHANGED <<variant, now, webVars, quiet, auth_tokens, username, logoutHidden, initPc>>
    /\ Reports(i)

\* Mutant: after the write the handler reports success without the
\* protected request.
refreshAccessToken_stored_silent(i) ==
    /\ variant = "popup"
    /\ tasks[i].kind = "accessProtected" /\ tasks[i].pc = "set"
    /\ auth_tokens' = tasks[i].held
    /\ Resume(i, Ended(tasks[i], MsgProtectedOk, "success"))
    /\ UNCHANGED <<variant, now, webVars, quiet, username, logoutHidden, initPc>>
    /\ Reports(i)

\* Mutant: the protected request carries the access token that was in the
\* cache before the write.
refreshAccessToken_stored_oldToken(i) ==
    /\ variant = "popup"
    /\ tasks[i].kind = "accessProtected" /\ tasks[i].pc = "set"
    /\ auth_tokens' = tasks[i].held
    /\ Resume(i, [tasks[i] EXCEPT
                    !.pc = "protected",
                    !.lateWrite = tasks[i].stale,
                    !.held = NoEntry,
                    !.calls = Append(@, "protected"),
                    !.sent = auth_tokens.access_token])
    /\ UNCHANGED <<variant, now, webVars, quiet, username, logoutHidden, initPc>>
    /\ Reports(i)

\* refreshAccessToken() after the write, back through getAccessToken into
\* accessProtected, which sends GET /protected with the new access token.
refreshAccessToken_stored(i) ==
    /\ variant = "popup"
    /\ tasks[i].kind = "accessProtected" /\ tasks[i].pc = "set"
    /\ auth_tokens' = tasks[i].held
    /\ Resume(i, [tasks[i] EXCEPT
                    !.pc = "protected",
                    !.lateWrite = tasks[i].stale,
                    !.held = NoEntry,
                    !.calls = Append(@, "protected"),
                    !.sent = tasks[i].held.access_token])
    /\ UNCHANGED <<variant, now, webVars, quiet, username, logoutHidden, initPc>>
    /\ Reports(i)

\* accessProtected(): fetch has resolved (popup.js:192); on to
\* response.json() (199).
accessProtected_responded(i) ==
    /\ variant = "popup"
    /\ tasks[i].kind = "accessProtected" /\ tasks[i].pc = "protected"
    /\ Responded(i, Statuses)
    /\ UNCHANGED <<variant, statusVars, webVars, quiet, auth_tokens, username, logoutHidden, initPc>>

\* accessProtected(): fetch has rejected, or response.json() has resolved
\* or rejected; the rest of the handler.
accessProtected_fetched(i) ==
    /\ variant = "popup"
    /\ tasks[i].kind = "accessProtected" /\ tasks[i].pc = "protected"
    /\ \E r \in Arrived(tasks[i], Statuses) :
         LET t == [tasks[i] EXCEPT
                     !.answers = @ + 1, !.headers = 0,
                     !.first = IF r.net = "throw" THEN "threw"
                               ELSE IF r.status = 401 THEN "401" ELSE "other"]
         IN
         /\ r.pair = NoPair
         /\ IF r.net = "throw"
            THEN Resume(i, Ended(t, MsgNetwork, "error"))
            ELSE IF ~r.json
            THEN Resume(i, Ended(t, MsgBody, "error"))
            ELSE IF Accepted(r)
            THEN Resume(i, Ended(t, MsgProtectedOk, "success"))
            ELSE Resume(i, Ended(t, MsgProtectedFailed, "error"))
    /\ UNCHANGED <<variant, now, webVars, quiet, auth_tokens, username, logoutHidden, initPc>>
    /\ Reports(i)

\* <div id="status" class=""></div>, no timer, statusTimeout undefined.
StatusInit ==
    /\ statusText = MsgNone
    /\ statusClasses = {}
    /\ statusTimeout = 0
    /\ timers = {}
    /\ nextTimer = 1
    /\ now = 0
    /\ shownAt = -1

\* The pairs an earlier run of the popup can have left in chrome.storage.
StoredPairs ==
    {storeTokens(p.access, p.refresh) : p \in {q \in IssuedPairs : q.access.enc = "jwt"}}

InitPopup ==
    /\ variant = "popup"
    /\ tasks = [i \in Slots |-> IdleTask]
    /\ auth_tokens \in {NoEntry} \cup StoredPairs
    /\ username \in {NoKey, <<"a">>}
    /\ logoutHidden = TRUE
    /\ initPc = "get"
    /\ quiet = FALSE
    /\ StatusInit
    /\ accessToken = EmptyString /\ refreshToken = EmptyString
    /\ lsAccess = Null /\ lsRefresh = Null
    /\ authHidden = FALSE /\ welcomeHidden = TRUE

(* ============================================================== index.html *)

MsgEnter == "Please enter username and password."
MsgLoginFailed == "Login failed: "
MsgLoginError == "Error logging in."
MsgRegisterOk == "Registration successful! You can now log in."
MsgRegisterError == "Error registering."
MsgAuthRequired == "Authentication required"

\* Mutant: the keys are written, the two variables are not.
web_storeTokens_storageOnly(access, refresh) ==
    [accessToken |-> accessToken, refreshToken |-> refreshToken,
     lsAccess |-> StringOf(access), lsRefresh |-> StringOf(refresh)]

\* storeTokens(access, refresh): the two variables and the two keys after it.
web_storeTokens(access, refresh) ==
    [accessToken |-> access, refreshToken |-> refresh,
     lsAccess |-> StringOf(access), lsRefresh |-> StringOf(refresh)]

\* Mutant: only the access token is read back.
loadTokens_accessOnly(storedAccess, storedRefresh) ==
    [accessToken |-> OrEmpty(storedAccess), refreshToken |-> EmptyString,
     lsAccess |-> storedAccess, lsRefresh |-> storedRefresh]

\* loadTokens(), from the two keys.
loadTokens(storedAccess, storedRefresh) ==
    [accessToken |-> OrEmpty(storedAccess), refreshToken |-> OrEmpty(storedRefresh),
     lsAccess |-> storedAccess, lsRefresh |-> storedRefresh]

\* Mutant: the two variables are emptied, the keys stay.
clearTokens_memoryOnly ==
    [accessToken |-> EmptyString, refreshToken |-> EmptyString,
     lsAccess |-> lsAccess, lsRefresh |-> lsRefresh]

\* clearTokens()
clearTokens ==
    [accessToken |-> EmptyString, refreshToken |-> EmptyString,
     lsAccess |-> Null, lsRefresh |-> Null]

\* isAuthenticated()
isAuthenticated(access) == Truthy(access)

SetTokens0(w) ==
    /\ accessToken = w.accessToken
    /\ refreshToken = w.refreshToken
    /\ lsAccess = w.lsAccess
    /\ lsRefresh = w.lsRefresh

SetTokens(w) ==
    /\ accessToken' = w.accessToken
    /\ refreshToken' = w.refreshToken
    /\ lsAccess' = w.lsAccess
    /\ lsRefresh' = w.lsRefresh

\* alert('Session expired. Please log in again.') (index.html:166) is on
\* show: the script of the page is blocked until it is answered, so no
\* handler starts or resumes; the page can still be closed and loaded again.
\* (The other alerts of the page come last in their handler, with nothing
\* written after them, and are part of the handler's last step.)
AlertShown == \E i \in Slots : tasks[i].pc = "alert"

\* logout(): clearTokens, the username key, the two sections.
web_logout_effect ==
    /\ SetTokens(clearTokens)
    /\ username' = NoKey
    /\ authHidden' = FALSE
    /\ welcomeHidden' = TRUE

\* The Logout button.
web_logout ==
    /\ variant = "web"
    /\ ~AlertShown
    /\ web_logout_effect
    /\ tasks' = Forget(0)
    /\ UNCHANGED <<variant, statusVars, auth_tokens, logoutHidden, initPc, quiet>>

\* The Login button of the modal, up to login()'s fetch.
web_login(i) ==
    /\ variant = "web"
    /\ ~AlertShown
    /\ Free(i)
    /\ \E u \in Usernames, password \in Passwords :
         LET uname == Trim(u)
             t == [NewTask("web_login", "authenticate") EXCEPT !.uname = uname,
                      !.typed = [u |-> u, p |-> Len(password)]]
         IN  IF uname # <<>> /\ password # <<>>
             THEN Resume(i, [t EXCEPT !.calls = <<"authenticate">>])
             ELSE Resume(i, Ended(t, MsgEnter, "alert"))
    /\ UNCHANGED <<variant, statusVars, webVars, quiet, auth_tokens, username, logoutHidden, initPc>>

\* login(): fetch has resolved (index.html:230); on to response.json() in
\* either branch (237, 243).
web_login_responded(i) ==
    /\ variant = "web"
    /\ ~AlertShown
    /\ tasks[i].kind = "web_login" /\ tasks[i].pc = "authenticate"
    /\ Responded(i, Statuses)
    /\ UNCHANGED <<variant, statusVars, webVars, quiet, auth_tokens, username, logoutHidden, initPc>>

\* login(): fetch has rejected, or response.json() has resolved or
\* rejected; the rest of login() and of the click handler.
web_login_fetched(i) ==
    /\ variant = "web"
    /\ ~AlertShown
    /\ tasks[i].kind = "web_login" /\ tasks[i].pc = "authenticate"
    /\ \E r \in Arrived(tasks[i], Statuses) :
         LET t == [tasks[i] EXCEPT !.answers = @ + 1, !.headers = 0, !.answer = Classify(r),
                                   !.got = r.pair] IN
         IF r.net = "ok" /\ ResponseOk(r) /\ r.json
         THEN /\ SetTokens(web_storeTokens(r.pair.access, r.pair.refresh))
              /\ username' = t.uname
              /\ authHidden' = TRUE
              /\ welcomeHidden' = FALSE
              /\ Resume(i, [Returned(t) EXCEPT !.outcome = "true", !.got = t.got])
         ELSE /\ Resume(i, [Ended(t, IF r.net = "ok" /\ r.json THEN MsgLoginFailed
                                     ELSE MsgLoginError, "alert")
                             EXCEPT !.outcome = "false"])
              /\ UNCHANGED <<webVars, username>>
    /\ UNCHANGED <<variant, statusVars, auth_tokens, logoutHidden, initPc, quiet>>

\* The Register button of the modal, up to register()'s fetch.
web_register(i) ==
    /\ variant = "web"
    /\ ~AlertShown
    /\ Free(i)
    /\ \E u \in Usernames, password \in Passwords :
         LET uname == Trim(u)
             t == [NewTask("web_register", "register") EXCEPT !.uname = uname,
                      !.typed = [u |-> u, p |-> Len(password)]]
         IN  IF uname # <<>> /\ password # <<>>
             THEN Resume(i, [t EXCEPT !.calls = <<"register">>])
             ELSE Resume(i, Ended(t, MsgEnter, "alert"))
    /\ UNCHANGED <<variant, statusVars, webVars, quiet, auth_tokens, username, logoutHidden, initPc>>

\* register(): fetch has resolved with a status that is not 2xx
\* (index.html:206); on to response.json() (216).
web_register_responded(i) ==
    /\ variant = "web"
    /\ ~AlertShown
    /\ tasks[i].kind = "web_register" /\ tasks[i].pc = "register"
    /\ Responded(i, ErrorStatuses)
    /\ UNCHANGED <<variant, statusVars, webVars, quiet, auth_tokens, username, logoutHidden, initPc>>

\* register(): fetch has rejected or resolved with a 2xx status, or
\* response.json() has resolved or rejected; the rest of the handler.
web_register_fetched(i) ==
    /\ variant = "web"
    /\ ~AlertShown
    /\ tasks[i].kind = "web_register" /\ tasks[i].pc = "register"
    /\ \E r \in Arrived(tasks[i], ErrorStatuses) :
         LET t == [tasks[i] EXCEPT !.answers = @ + 1, !.headers = 0, !.answer = Classify(r)] IN
         /\ r.pair = NoPair
         /\ IF r.net = "ok" /\ ResponseOk(r)
            THEN Resume(i, [Ended(t, MsgRegisterOk, "alert") EXCEPT !.outcome = "true"])
            ELSE Resume(i, [Ended(t, IF r.net = "ok" /\ r.json THEN MsgRegisterFailed
                                     ELSE MsgRegisterError, "alert")
                             EXCEPT !.outcome = "false"])
    /\ UNCHANGED <<variant, statusVars, webVars, quiet, auth_tokens, username, logoutHidden, initPc>>

\* authenticatedFetch(url, options), up to the first fetch(url, options).
authenticatedFetch(i) ==
    /\ variant = "web"
    /\ ~AlertShown
    /\ Free(i)
    /\ Resume(i, [NewTask("authenticatedFetch", "first") EXCEPT
                    !.calls = <<"target">>, !.sent = accessToken])
    /\ UNCHANGED <<variant, statusVars, webVars, quiet, auth_tokens, username, logoutHidden, initPc>>

\* authenticatedFetch after the first answer: return it, or on 401 enter
\* refreshAccessToken, which without a refresh token gives up at once, on
\* to the alert of line 166.
authenticatedFetch_fetched(i) ==
    /\ variant = "web"
    /\ ~AlertShown
    /\ tasks[i].kind = "authenticatedFetch" /\ tasks[i].pc = "first"
    /\ \E r \in Responses :
         LET t == [tasks[i] EXCEPT
                     !.answers = @ + 1, !.headers = 0,
                     !.first = IF r.net = "throw" THEN "threw"
                               ELSE IF r.status # 401 THEN "other"
                               ELSE IF refreshToken \in {EmptyString, Undefined}
                               THEN "401 without refresh token"
                               ELSE "401 with refresh token"]
         IN
         /\ r.pair = NoPair
         /\ IF r.net = "throw"
            THEN /\ Resume(i, Threw(t, MsgNetwork))
                 /\ UNCHANGED <<webVars, username>>
            ELSE IF r.status # 401
            THEN /\ Resume(i, [Returned(t) EXCEPT !.outcome = "returned"])
                 /\ UNCHANGED <<webVars, username>>
            ELSE IF ~Truthy(refreshToken)
            THEN /\ Resume(i, [t EXCEPT !.pc = "alert"])
                 /\ UNCHANGED <<webVars, username>>
            ELSE /\ Resume(i, [t EXCEPT
                                 !.pc = "refresh",
                                 !.calls = Append(@, "refresh"),
                                 !.sent = refreshToken,
                                 !.presented = refreshToken])
                 /\ UNCHANGED <<webVars, username>>
    /\ UNCHANGED <<variant, statusVars, auth_tokens, logoutHidden, initPc, quiet>>

\* refreshAccessToken(): fetch has resolved with a 2xx status
\* (index.html:182); on to response.json() (189).
web_refreshAccessToken_responded(i) ==
    /\ variant = "web"
    /\ ~AlertShown
    /\ tasks[i].kind = "authenticatedFetch" /\ tasks[i].pc = "refresh"
    /\ Responded(i, OkStatuses)
    /\ UNCHANGED <<variant, statusVars, webVars, quiet, auth_tokens, username, logoutHidden, initPc>>

\* refreshAccessToken: fetch has rejected or resolved with a status that is
\* not 2xx, or response.json() has resolved or rejected; back in
\* authenticatedFetch:
\* the retry with the new token, or, the tokens cleared (193, 198), the
\* alert of line 166.
web_refreshAccessToken(i) ==
    /\ variant = "web"
    /\ ~AlertShown
    /\ tasks[i].kind = "authenticatedFetch" /\ tasks[i].pc = "refresh"
    /\ \E r \in Arrived(tasks[i], OkStatuses) :
         LET t == [tasks[i] EXCEPT !.answers = @ + 1, !.headers = 0, !.answer = Classify(r),
                                   !.got = r.pair] IN
         IF r.net = "ok" /\ ResponseOk(r) /\ r.json
         THEN /\ SetTokens(web_storeTokens(r.pair.access, r.pair.refresh))
              /\ Resume(i, [t EXCEPT
                              !.pc = "retry",
                              !.calls = Append(@, "target"),
                              !.sent = accessToken'])
              /\ UNCHANGED <<username, authHidden, welcomeHidden>>
         ELSE /\ SetTokens(clearTokens)
              /\ Resume(i, [t EXCEPT !.pc = "alert"])
              /\ UNCHANGED <<username, authHidden, welcomeHidden>>
    /\ UNCHANGED <<variant, statusVars, auth_tokens, logoutHidden, initPc, quiet>>

\* authenticatedFetch, the alert of line 166 answered: the forced logout
\* (167) and the throw (168).
authenticatedFetch_alerted(i) ==
    /\ variant = "web"
    /\ tasks[i].kind = "authenticatedFetch" /\ tasks[i].pc = "alert"
    /\ web_logout_effect
    /\ Resume(i, [Ended(tasks[i], MsgAuthRequired, "throw") EXCEPT !.outcome = "threw"])
    /\ UNCHANGED <<variant, statusVars, auth_tokens, logoutHidden, initPc, quiet>>

\* authenticatedFetch after the answer to the retry: returned as it is.
authenticatedFetch_retried(i) ==
    /\ variant = "web"
    /\ ~AlertShown
    /\ tasks[i].kind = "authenticatedFetch" /\ tasks[i].pc = "retry"
    /\ \E r \in Responses :
         LET t == [tasks[i] EXCEPT
                     !.answers = @ + 1, !.headers = 0,
                     !.retried = IF r.net = "throw" THEN "threw"
                                 ELSE IF r.status = 401 THEN "401" ELSE "other"]
         IN
         /\ r.pair = NoPair
         /\ IF r.net = "throw"
            THEN Resume(i, Threw(t, MsgNetwork))
            ELSE Resume(i, [Returned(t) EXCEPT !.outcome = "returned"])
    /\ UNCHANGED <<variant, statusVars, webVars, quiet, auth_tokens, username, logoutHidden, initPc>>

\* The page is closed, an alert on show or not, and loaded again: the
\* handlers of the page it replaces are gone with it, and the
\* DOMContentLoaded handler runs loadTokens and shows the
\* section isAuthenticated selects (index.html:359-374).
web_DOMContentLoaded ==
    /\ variant = "web"
    /\ SetTokens(loadTokens(lsAccess, lsRefresh))
    /\ authHidden' = isAuthenticated(accessToken')
    /\ welcomeHidden' = ~isAuthenticated(accessToken')
    /\ tasks' = [i \in Slots |-> IdleTask]
    /\ UNCHANGED <<variant, statusVars, auth_tokens, username, logoutHidden, initPc, quiet>>

\* The page after its DOMContentLoaded handler, over what an earlier visit
\* can have left in localStorage: the two token keys or neither, each with
\* or without the username key (Logout removes the username while a
\* /refresh that then stores a pair is in flight; a page closed at the
\* alert of line 166 has cleared the tokens and kept the username).
InitWeb ==
    /\ variant = "web"
    /\ tasks = [i \in Slots |-> IdleTask]
    /\ auth_tokens = NoEntry /\ logoutHidden = TRUE /\ initPc = "done"
    /\ quiet = FALSE
    /\ StatusInit
    /\ \E p \in {[access |-> Null, refresh |-> Null]}
                \cup {[access |-> StringOf(q.access), refresh |-> StringOf(q.refresh)] :
                        q \in ResponsePairs} :
         /\ SetTokens0(loadTokens(p.access, p.refresh))
         /\ username \in {NoKey, <<"a">>}
         /\ authHidden = isAuthenticated(OrEmpty(p.access))
         /\ welcomeHidden = ~isAuthenticated(OrEmpty(p.access))

Init == InitPopup \/ InitWeb


NextPopup ==
    \/ checkLoginStatus
    \/ \E i \in Slots : register(i)
    \/ \E i \in Slots : register_responded(i)
    \/ \E i \in Slots : register_fetched(i)
    \/ \E i \in Slots : login(i)
    \/ \E i \in Slots : login_responded(i)
    \/ \E i \in Slots : login_fetched(i)
    \/ \E i \in Slots : login_stored(i)
    \/ \E i \in Slots : logout(i)
    \/ \E i \in Slots : logout_removed(i)
    \/ \E i \in Slots : accessProtected(i)
    \/ \E i \in Slots : getAccessToken(i)
    \/ \E i \in Slots : refreshAccessToken_responded(i)
    \/ \E i \in Slots : refreshAccessToken(i)
    \/ \E i \in Slots : refreshAccessToken_stored(i)
    \/ \E i \in Slots : accessProtected_responded(i)
    \/ \E i \in Slots : accessProtected_fetched(i)
    \/ timerFires
    \/ elapse

NextWeb ==
    \/ web_DOMContentLoaded
    \/ web_logout
    \/ \E i \in Slots : web_login(i)
    \/ \E i \in Slots : web_login_responded(i)
    \/ \E i \in Slots : web_login_fetched(i)
    \/ \E i \in Slots : web_register(i)
    \/ \E i \in Slots : web_register_responded(i)
    \/ \E i \in Slots : web_register_fetched(i)
    \/ \E i \in Slots : authenticatedFetch(i)
    \/ \E i \in Slots : authenticatedFetch_fetched(i)
    \/ \E i \in Slots : web_refreshAccessToken_responded(i)
    \/ \E i \in Slots : web_refreshAccessToken(i)
    \/ \E i \in Slots : authenticatedFetch_alerted(i)
    \/ \E i \in Slots : authenticatedFetch_retried(i)

Next == NextPopup \/ NextWeb

\* Either client.
Spec == Init /\ [][Next]_vars

\* The extension popup alone.
SpecPopup == InitPopup /\ [][NextPopup]_vars

\* The steps in which the invocation of slot i resumes after an await: its
\* fetch or storage operation has resolved or rejected.
Resumes(i) ==
    \/ register_responded(i)
    \/ register_fetched(i)
    \/ login_responded(i)
    \/ login_fetched(i)
    \/ login_stored(i)
    \/ logout_removed(i)
    \/ getAccessToken(i)
    \/ refreshAccessToken_responded(i)
    \/ refreshAccessToken(i)
    \/ refreshAccessToken_stored(i)
    \/ accessProtected_responded(i)
    \/ accessProtected_fetched(i)

\* The extension popup alone, every fetch and every storage operation
\* eventually resolving or rejecting.
SpecPopupFair ==
    /\ InitPopup /\ [][NextPopup]_vars
    /\ \A i \in Slots : WF_vars(Resumes(i))

\* The web page alone.
SpecWeb == InitWeb /\ [][NextWeb]_vars

(* ========================================================= the status line *)
\* setStatus and its timer (popup.js:210-221), run on their own: variant is
\* "status".  In the popup the handlers call setStatus as they end; here
\* the function is called with any message at any instant of a clock that
\* advances in steps of StatusTick, so that a call can fall between the
\* start and the end of an earlier message's delay.

\* Every message a handler of popup.js passes to setStatus.
StatusMessages ==
    {MsgNoTokens, MsgProtectedOk, MsgProtectedFailed, MsgEnterRegister, MsgPasswordShort,
     MsgRegistered, MsgRegisterFailed, MsgEnterLogin, MsgAuthenticated, MsgAuthFailed,
     MsgLoggedOut, MsgRefreshFailed, MsgNetwork, MsgBody, MsgDecode, MsgStorage}

StatusTypes == {"error", "success"}

\* A call of setStatus, with any message at any time.
statusCall ==
    /\ variant = "status"
    /\ nextTimer <= MaxStatusCalls
    /\ now <= MaxClock
    /\ UNCHANGED <<variant, tasks, auth_tokens, username, logoutHidden, initPc,
                   webVars, quiet, now>>
    /\ \E message \in StatusMessages, type \in StatusTypes : setStatus(message, type)

InitStatus ==
    /\ variant = "status"
    /\ tasks = [i \in Slots |-> IdleTask]
    /\ auth_tokens = NoEntry /\ username = NoKey
    /\ logoutHidden = TRUE /\ initPc = "done" /\ quiet = FALSE
    /\ accessToken = EmptyString /\ refreshToken = EmptyString
    /\ lsAccess = Null /\ lsRefresh = Null
    /\ authHidden = FALSE /\ welcomeHidden = TRUE
    /\ StatusInit

NextStatus ==
    \/ statusCall
    \/ timerFires
    \/ tick

\* The status line, a due timer firing and the clock going on.
SpecStatus ==
    /\ InitStatus
    /\ [][NextStatus]_vars
    /\ WF_vars(timerFires)
    /\ WF_vars(tick)

(* ================================================================ claims *)

Popup(i) == variant = "popup" /\ tasks[i].kind = "accessProtected"

Count(seq, x) == Cardinality({k \in 1..Len(seq) : seq[k] = x})

\* Requests of an invocation that have not been answered yet.
Outstanding(t) == Len(t.calls) - t.answers

\* The refresh of an accessProtected did not go through at the server or on
\* the wire: fetch threw, non-2xx, or a status other than 'ok'.
RefreshFailed(t) == t.answer \in {"threw", "non2xx", "notok"}

\* C1 as stated: an accessProtected that finds a pair whose expiry is earlier
\* than the current time has, when it returns, requested /refresh and then
\* /protected, once each and nothing else, whatever the server answered.
C1_RefreshThenProtectedAlways ==
    \A i \in Slots :
        (Popup(i) /\ tasks[i].found = "earlier" /\ tasks[i].pc = "done")
            => tasks[i].calls = <<"refresh", "protected">>

\* C1 amended: such an invocation requests /refresh exactly once; if that
\* answer is 2xx with status 'ok' and an access token whose payload decodes
\* it then requests /protected exactly once, and on any other answer it
\* returns with no request to /protected.  No other request is made.
C1_RefreshThenProtectedIfRefreshed ==
    \A i \in Slots :
        (Popup(i) /\ tasks[i].found = "earlier")
            => /\ tasks[i].answer = "none"
                    => tasks[i].pc = "refresh" /\ tasks[i].calls = <<"refresh">>
               /\ tasks[i].answer = "ok"
                    => \/ tasks[i].pc = "set" /\ tasks[i].calls = <<"refresh">>
                       \/ /\ tasks[i].pc \in {"protected", "done"}
                          /\ tasks[i].calls = <<"refresh", "protected">>
               /\ tasks[i].answer \notin {"none", "ok"}
                    => tasks[i].pc = "done" /\ tasks[i].calls = <<"refresh">>

C1_Witness ==
    \E i \in Slots :
        /\ Popup(i) /\ tasks[i].found = "earlier" /\ tasks[i].pc = "done"
        /\ tasks[i].answer = "ok"
        /\ tasks[i].calls = <<"refresh", "protected">>

\* C2: an accessProtected that finds a pair whose expiry is not earlier than
\* the current time requests /protected once and nothing else, never
\* /refresh, whatever the answer to that request is.
C2_FreshTokenOneCall ==
    \A i \in Slots :
        (Popup(i) /\ tasks[i].found \in {"equal", "later"})
            => /\ tasks[i].calls = <<"protected">>
               /\ tasks[i].pc \in {"protected", "done"}
               /\ tasks[i].pc = "done" => tasks[i].answers = 1

C2_Witness ==
    \E i \in Slots :
        /\ Popup(i) /\ tasks[i].found = "equal" /\ tasks[i].pc = "done"
        /\ tasks[i].msg = MsgProtectedFailed
        /\ tasks[i].calls = <<"protected">>

\* C3 as stated: once logout has completed with nothing else pending, and
\* while nothing else has started, the entry and the username key are absent
\* and an accessProtected started then returns with 'No tokens found. Please
\* login.' and no request.
C3_LogoutThenNoTokensMessage ==
    /\ quiet => auth_tokens = NoEntry /\ username = NoKey
    /\ \A i \in Slots :
        (Popup(i) /\ tasks[i].afterLogout /\ quiet /\ tasks[i].pc = "done")
            => /\ tasks[i].calls = <<>>
               /\ tasks[i].type = "error"
               /\ tasks[i].msg = MsgNoTokens

\* C3 amended: the same, except that the accessProtected shows 'No tokens
\* found. Please login.' when its read of chrome.storage succeeds and the
\* message of chrome.runtime.lastError when the read fails; in both cases it
\* returns with an error status and no request.
C3_LogoutThenNoRequest ==
    /\ quiet => auth_tokens = NoEntry /\ username = NoKey
    /\ \A i \in Slots :
        (Popup(i) /\ tasks[i].afterLogout /\ quiet /\ tasks[i].pc = "done")
            => /\ tasks[i].calls = <<>>
               /\ tasks[i].type = "error"
               /\ tasks[i].found \in {"absent", "error"}
               /\ tasks[i].found = "absent" => tasks[i].msg = MsgNoTokens
               /\ tasks[i].found = "error" => tasks[i].msg = MsgStorage

C3_Witness ==
    \E i \in Slots :
        /\ Popup(i) /\ tasks[i].afterLogout /\ quiet /\ tasks[i].pc = "done"
        /\ tasks[i].msg = MsgNoTokens

WebFetch(i) == variant = "web" /\ tasks[i].kind = "authenticatedFetch"

\* The /refresh answer the web page takes as a success: 2xx, readable body.
WebRefreshed(t) == t.answer \in {"notok", "ok", "okopaque"}

C5_RefreshFailureLogsOut ==
    \A i \in Slots :
        (Popup(i) /\ tasks[i].pc = "done" /\ RefreshFailed(tasks[i]))
            => auth_tokens = NoEntry /\ logoutHidden

C7_LoginStoresPairAndExpiry ==
    \A i \in Slots :
        (/\ variant = "popup" /\ tasks[i].kind = "login"
         /\ tasks[i].pc = "done" /\ tasks[i].answer = "ok")
            => /\ tasks[i].msg = MsgAuthenticated
               /\ auth_tokens.access_token = tasks[i].got.access
               /\ auth_tokens.refresh_token = tasks[i].got.refresh
               /\ auth_tokens.access_token_expiry = tasks[i].got.access.exp * 1000

C7_Witness ==
    \E i \in Slots :
        /\ variant = "popup" /\ tasks[i].kind = "login"
        /\ tasks[i].pc = "done" /\ tasks[i].answer = "ok"
        /\ auth_tokens.access_token_expiry = 1000

\* Tokens a and r come out of one answer (or are both missing).
IssuedTogether(a, r) == a.id = r.id

\* C8: in either client the stored access token and the stored refresh token
\* come from one and the same authenticate or refresh answer; the entry (the
\* pair of variables, the pair of keys) is there whole or not at all.
C8_PairIsWhole ==
    /\ IssuedTogether(auth_tokens.access_token, auth_tokens.refresh_token)
    /\ auth_tokens # NoEntry =>
            /\ auth_tokens.access_token.use = "access"
            /\ auth_tokens.refresh_token.use = "refresh"
    /\ IssuedTogether(accessToken, refreshToken)
    /\ IssuedTogether(lsAccess, lsRefresh)
    /\ (lsAccess = Null) <=> (lsRefresh = Null)
    /\ (accessToken = EmptyString) <=> (refreshToken = EmptyString)

C8_Witness ==
    \E i \in Slots :
        /\ Popup(i) /\ tasks[i].pc = "protected" /\ tasks[i].answer = "ok"
        /\ auth_tokens.access_token = tasks[i].sent
        /\ auth_tokens.refresh_token.id = tasks[i].sent.id

\* C9 as stated: no login or refresh whose request was in flight when a
\* logout completed writes the token cache afterwards.
C9_NoWriteByStaleAnswer ==
    \A i \in Slots : ~tasks[i].lateWrite

\* C10 as stated: at most one request of the popup is outstanding.
C10_OneRequestOutstanding ==
    variant = "popup" =>
        Cardinality({i \in Slots : Outstanding(tasks[i]) > 0}) <= 1

\* C10 amended: every invocation has at most one request outstanding, and
\* none once it has returned: it sends a request only after the answer to
\* its previous one.  Invocations started while another one awaits an answer
\* have their own request outstanding beside it.
C10_OneRequestPerInvocation ==
    \A i \in Slots :
        variant = "popup" =>
            /\ Outstanding(tasks[i]) \in {0, 1}
            /\ IsOver(tasks[i]) => Outstanding(tasks[i]) = 0
            /\ Outstanding(tasks[i]) = 1
                    <=> tasks[i].pc \in {"register", "authenticate", "refresh", "protected"}

C10_Witness ==
    \E i, j \in Slots :
        /\ variant = "popup" /\ i # j
        /\ tasks[i].kind = "accessProtected" /\ tasks[i].pc = "protected"
        /\ tasks[j].kind = "login" /\ tasks[j].pc = "authenticate"
        /\ Outstanding(tasks[i]) = 1 /\ Outstanding(tasks[j]) = 1

\* The text has no character other than spaces.
AllBlank(u) == \A k \in 1..Len(u) : u[k] = " "

\* Slot i takes a click of the handler `kind` in this step.
Clicked(i, kind) == IsOver(tasks[i]) /\ tasks'[i].kind = kind

\* C11: a click of the popup's register with a username that is not empty
\* after trimming and a password of 1 to 7 characters ends at once with the
\* error 'Password must be at least 8 characters long.', with no request
\* sent, and with the username key and the token pair as they were.
C11_ShortPasswordRejected ==
    [][\A i \in Slots :
        (/\ variant = "popup" /\ Clicked(i, "register")
         /\ ~AllBlank(tasks'[i].typed.u)
         /\ tasks'[i].typed.p \in 1..(MinPasswordLength - 1))
            => /\ tasks'[i].pc = "done"
               /\ tasks'[i].calls = <<>>
               /\ tasks'[i].msg = MsgPasswordShort
               /\ tasks'[i].type = "error"
               /\ auth_tokens' = auth_tokens
               /\ username' = username]_vars

C11_Witness ==
    \E i \in Slots :
        /\ variant = "popup" /\ tasks[i].kind = "register" /\ tasks[i].pc = "done"
        /\ tasks[i].typed = [u |-> <<" ", "a", " ">>, p |-> MinPasswordLength - 1]
        /\ tasks[i].msg = MsgPasswordShort
        /\ auth_tokens # NoEntry /\ username = <<"a">>

\* C12 as stated: a click of the web page's Register button with a password
\* of fewer than 8 characters sends no request.
C12_WebShortPasswordNoCall ==
    [][\A i \in Slots :
        (/\ variant = "web" /\ Clicked(i, "web_register")
         /\ tasks'[i].typed.p < MinPasswordLength)
            => tasks'[i].calls = <<>>]_vars

\* Slot i receives the answer to its request in this step.
Answered(i, kind) ==
    /\ tasks[i].kind = kind /\ tasks'[i].kind = kind
    /\ tasks'[i].answers = tasks[i].answers + 1

\* The answer is a failure the server or the network reports: fetch threw,
\* non-2xx, or a body whose status is not 'ok'.
Refused(t) == t.answer \in {"threw", "non2xx", "notok"}

\* C13: a popup login whose /authenticate answer is non-2xx, has a status
\* other than 'ok', or whose fetch throws, ends at that answer with an
\* 'Authentication failed' error status; neither its click nor the step that
\* handles the answer changes the auth_tokens entry or the visibility of the
\* logout button.
C13_FailedLoginKeepsPair ==
    [][\A i \in Slots :
        /\ (variant = "popup" /\ Clicked(i, "login"))
                => auth_tokens' = auth_tokens /\ logoutHidden' = logoutHidden
        /\ (variant = "popup" /\ Answered(i, "login") /\ Refused(tasks'[i]))
                => /\ tasks'[i].pc = "done"
                   /\ tasks'[i].calls = <<"authenticate">>
                   /\ tasks'[i].msg = MsgAuthFailed
                   /\ tasks'[i].type = "error"
                   /\ auth_tokens' = auth_tokens
                   /\ logoutHidden' = logoutHidden]_vars

C13_Witness ==
    \E i \in Slots :
        /\ variant = "popup" /\ tasks[i].kind = "login" /\ tasks[i].pc = "done"
        /\ tasks[i].answer = "notok"
        /\ tasks[i].msg = MsgAuthFailed
        /\ auth_tokens # NoEntry /\ ~logoutHidden

\* C14 as stated: a web login whose /authenticate answer is non-2xx, or a
\* body whose status is not 'ok', returns false and changes neither the two
\* token variables, the token keys, the username key nor the sections shown.
C14_WebFailedLoginStoresNothing ==
    [][\A i \in Slots :
        (/\ variant = "web" /\ Answered(i, "web_login")
         /\ tasks'[i].answer \in {"non2xx", "notok"})
            => /\ tasks'[i].outcome = "false"
               /\ UNCHANGED <<webVars, username>>]_vars

\* The message each handler gives for a missing input, and how it is shown.
MissingInput(kind) ==
    CASE kind = "register" -> [msg |-> MsgEnterRegister, type |-> "error"]
      [] kind = "login" -> [msg |-> MsgEnterLogin, type |-> "error"]
      [] OTHER -> [msg |-> MsgEnter, type |-> "alert"]

\* C15: in both clients a click of register or of login with a username that
\* is empty after trimming, or with an empty password, ends at once with the
\* handler's missing-input message and no request, and changes neither the
\* token pair nor the username key.
C15_MissingInputNoCall ==
    [][\A i \in Slots :
        \A kind \in {"register", "login", "web_register", "web_login"} :
            (/\ Clicked(i, kind)
             /\ \/ AllBlank(tasks'[i].typed.u)
                \/ tasks'[i].typed.p = 0)
                => /\ tasks'[i].pc = "done"
                   /\ tasks'[i].calls = <<>>
                   /\ tasks'[i].msg = MissingInput(kind).msg
                   /\ tasks'[i].type = MissingInput(kind).type
                   /\ UNCHANGED <<auth_tokens, username, webVars>>]_vars

C15_Witness ==
    \E i \in Slots :
        /\ tasks[i].kind = "login" /\ tasks[i].pc = "done"
        /\ tasks[i].typed = [u |-> <<" ">>, p |-> MinPasswordLength]
        /\ tasks[i].msg = MsgEnterLogin
        /\ tasks[i].calls = <<>>
        /\ auth_tokens # NoEntry

\* The endpoint a register or login handler requests.
EndpointOf(kind) ==
    IF kind \in {"register", "web_register"} THEN "register" ELSE "authenticate"

\* C16: in both clients an invocation of register or of login sends at most
\* one request, to its own endpoint, and ends at the answer to it whatever
\* that answer is: after a failure nothing is sent again.
C16_RegisterLoginOneRequest ==
    \A i \in Slots :
        tasks[i].kind \in {"register", "login", "web_register", "web_login"}
            => /\ tasks[i].calls \in {<<>>, <<EndpointOf(tasks[i].kind)>>}
               /\ tasks[i].answers <= Len(tasks[i].calls)
               /\ (tasks[i].answers = 1 /\ tasks[i].answer # "ok")
                    => tasks[i].pc = "done"
               /\ tasks[i].answers = 1
                    => tasks[i].pc \in {"done", "set"}

C16_Witness ==
    \E i \in Slots :
        /\ tasks[i].kind = "register" /\ tasks[i].pc = "done"
        /\ tasks[i].answer = "threw"
        /\ tasks[i].calls = <<"register">> /\ tasks[i].answers = 1

\* Slot i's handler resumes after chrome.storage.local.set (popup.js:127):
\* storeTokens(a, r) has written the entry, a and r being the pair of the
\* answer the handler got.
Stores(i) ==
    /\ tasks[i].kind \in {"login", "accessProtected"}
    /\ tasks[i].pc = "set" /\ tasks'[i].pc # "set"

\* Slot i's logout resumes after chrome.storage.local.remove (popup.js:114).
Removes(i) ==
    /\ tasks[i].kind = "logout"
    /\ tasks[i].pc = "remove" /\ tasks'[i].pc # "remove"

\* Slot i's accessProtected resumes after getStoredTokens (popup.js:148).
Loads(i) ==
    /\ tasks[i].kind = "accessProtected"
    /\ tasks[i].pc = "get" /\ tasks'[i].pc # "get"

\* The handler of slot i goes on with the entry that is stored: with
\* nothing when there is none, else with its expiry, compared to the
\* clock, and the token of it that the comparison selects.
LoadedAsStored(i) ==
    IF auth_tokens = NoEntry
    THEN tasks'[i].found = "absent"
    ELSE /\ tasks'[i].found \in {"earlier", "equal", "later"}
         /\ tasks'[i].found = "earlier" <=> auth_tokens.access_token_expiry < now'
         /\ tasks'[i].found = "equal" <=> auth_tokens.access_token_expiry = now'
         /\ tasks'[i].sent = IF tasks'[i].found = "earlier"
                             THEN auth_tokens.refresh_token
                             ELSE auth_tokens.access_token

\* The popup's cache is written by storeTokens and by logout's remove only:
\* a store writes the pair of the answer with the expiry of its access
\* token, a remove leaves no entry, and no other step changes the entry.
PopupCacheWritten ==
    /\ \A i \in Slots :
          Stores(i) => auth_tokens' =
                            [access_token |-> tasks[i].got.access,
                             refresh_token |-> tasks[i].got.refresh,
                             access_token_expiry |-> tasks[i].got.access.exp * 1000]
    /\ \A i \in Slots : Removes(i) => auth_tokens' = NoEntry
    /\ auth_tokens' # auth_tokens => \E i \in Slots : Stores(i) \/ Removes(i)

\* The page's cache is written by storeTokens (in login and in
\* refreshAccessToken), which leaves its arguments in the two variables, and
\* by clearTokens, which leaves the empty string in both; outside a load of
\* the page no other step changes the variables.
WebStores(i) ==
    \/ /\ tasks[i].kind = "web_login" /\ tasks'[i].kind = "web_login"
       /\ tasks[i].pc = "authenticate" /\ tasks'[i].outcome = "true"
    \/ /\ tasks[i].kind = "authenticatedFetch"
       /\ tasks[i].pc = "refresh" /\ tasks'[i].pc = "retry"

WebCacheWritten ==
    /\ \A i \in Slots :
          WebStores(i) => /\ accessToken' = tasks'[i].got.access
                          /\ refreshToken' = tasks'[i].got.refresh
    /\ ~web_DOMContentLoaded /\ <<accessToken, refreshToken>>' # <<accessToken, refreshToken>>
          => \/ \E i \in Slots : WebStores(i)
             \/ accessToken' = EmptyString /\ refreshToken' = EmptyString

\* C17 as stated: a load returns exactly what was stored.  Popup: every
\* getStoredTokens (in checkLoginStatus and in getAccessToken) yields the
\* entry as the last storeTokens wrote it, or nothing after a remove.  Web:
\* loadTokens at a load of the page yields the two values the last
\* storeTokens left in the variables, or the empty strings after
\* clearTokens.
C17_CacheRoundTrip ==
    [][/\ variant = "popup"
            => /\ PopupCacheWritten
               /\ \A i \in Slots : Loads(i) => LoadedAsStored(i)
               /\ (initPc = "get" /\ initPc' = "done")
                        => logoutHidden' = (auth_tokens = NoEntry)
       /\ variant = "web"
            => /\ WebCacheWritten
               /\ web_DOMContentLoaded
                        => /\ accessToken' = accessToken
                           /\ refreshToken' = refreshToken]_vars

\* A value as localStorage gives it back: undefined comes back as the
\* string 'undefined', a string as itself.
ReadBack(v) == IF v = Undefined THEN UndefinedString ELSE v

\* C17: a load returns what was stored, when the read succeeds and what was
\* stored were strings.  Popup: getStoredTokens either rejects with
\* chrome.runtime.lastError, its caller going on with no entry at all
\* (accessProtected ends with that error and no request, checkLoginStatus
\* leaves the logout button hidden), or yields the entry as the last
\* storeTokens wrote it, or nothing after a remove.  Web: loadTokens at a
\* load of the page yields the two values the last storeTokens left in the
\* variables, undefined read back as the string 'undefined', or the empty
\* strings after clearTokens.
C17_CacheRoundTripWhenRead ==
    [][/\ variant = "popup"
            => /\ PopupCacheWritten
               /\ \A i \in Slots :
                     Loads(i) => \/ LoadedAsStored(i)
                                 \/ /\ tasks'[i].found = "error"
                                    /\ tasks'[i].pc = "done"
                                    /\ tasks'[i].calls = <<>>
               /\ (initPc = "get" /\ initPc' = "done")
                        => logoutHidden' \in {auth_tokens = NoEntry, TRUE}
       /\ variant = "web"
            => /\ WebCacheWritten
               /\ web_DOMContentLoaded
                        => /\ accessToken' = ReadBack(accessToken)
                           /\ refreshToken' = ReadBack(refreshToken)]_vars

\* The popup shows 'Authentication successful.', login's storeTokens being
\* the last write, and an accessProtected has read the entry and sent its
\* access token.
C17_Witness ==
    \E i \in Slots :
        /\ variant = "popup"
        /\ statusText = MsgAuthenticated
        /\ tasks[i].kind = "accessProtected" /\ tasks[i].pc = "protected"
        /\ tasks[i].found = "later" /\ tasks[i].calls = <<"protected">>
        /\ tasks[i].sent = auth_tokens.access_token
        /\ auth_tokens.refresh_token = RefreshTokenOf(auth_tokens.access_token.id)

\* On the page a login has stored the pair of its answer: the variables
\* and localStorage hold it when the page is loaded next.
C17_WitnessWeb ==
    \E i \in Slots :
        /\ variant = "web"
        /\ tasks[i].kind = "web_login" /\ tasks[i].outcome = "true"
        /\ tasks[i].got.access \in AccessTokens
        /\ accessToken = tasks[i].got.access /\ lsAccess = accessToken
        /\ refreshToken = tasks[i].got.refresh /\ lsRefresh = refreshToken

\* C18 as stated: a popup accessProtected whose GET /protected was answered
\* 401 has, when it returns, requested /refresh once and /protected a second
\* time.
C18_PopupRefreshesOn401 ==
    \A i \in Slots :
        (Popup(i) /\ tasks[i].pc = "done" /\ tasks[i].first = "401")
            => /\ Count(tasks[i].calls, "refresh") = 1
               /\ Count(tasks[i].calls, "protected") = 2
               /\ tasks[i].calls[Len(tasks[i].calls)] = "protected"

\* C19 as stated: when the request sent again after a successful refresh is
\* answered 401 once more, authenticatedFetch does not return normally: it
\* throws.
C19_WebSecond401Throws ==
    \A i \in Slots :
        (WebFetch(i) /\ tasks[i].pc = "done" /\ tasks[i].retried = "401")
            => tasks[i].outcome = "threw"

Shown == "show" \in statusClasses

\* The one timer statusTimeout names, if it is pending.
OwnTimers == {r \in timers : r.id = statusTimeout}

\* C20, in every state: at most one hide timer is pending; a message is on
\* show exactly while the timer of the call that displayed it is pending,
\* that timer is due 5 seconds after the call, and no message is hidden
\* before 5 seconds have passed since the call that displayed it.
C20_OneTimer ==
    /\ Cardinality(timers) <= 1
    /\ timers = OwnTimers
    /\ Shown <=> timers # {}
    /\ \A r \in timers : r.due = shownAt + 5000
    /\ (shownAt >= 0 /\ now < shownAt + 5000) => Shown

\* C20, at a call of setStatus: the message is on show with its class, and
\* the only pending timer is the new one.
C20_CallShows ==
    (nextTimer' # nextTimer)
        => /\ Shown'
           /\ statusText' \in StatusMessages
           /\ statusClasses' \in {{"error", "show"}, {"success", "show"}}
           /\ statusTimeout' = nextTimer
           /\ timers' = {[id |-> nextTimer, due |-> now + 5000]}

\* C20, when a message stops being on show: the timer that fired is the one
\* scheduled by the call that displayed it, for 5 seconds after that call;
\* its callback runs at that instant or later, never earlier.
C20_HiddenByOwnTimer ==
    (Shown /\ ~Shown')
        => /\ timers \ timers' = OwnTimers
           /\ OwnTimers # {}
           /\ now >= shownAt + 5000

\* C20: every setStatus call displays its message and leaves exactly one
\* hide timer pending, the earlier one cancelled, also when that one is
\* overdue; a message is hidden only by the timer of the call that
\* displayed it, which is set for 5 seconds after that call and runs then
\* or later, never by the timer of an earlier message; and the last message
\* shown is eventually hidden for good.
C20_StatusHiddenByOwnTimer ==
    /\ []C20_OneTimer
    /\ [][C20_CallShows /\ C20_HiddenByOwnTimer]_vars
    /\ <>[](~Shown)

\* The second message, displayed before the first one's timer was due, is
\* on show after the instant the first timer was set for, and still on show
\* after the instant of its own timer, which runs late.
C20_Witness ==
    /\ variant = "status"
    /\ Shown /\ statusText = MsgStorage
    /\ statusTimeout = 2
    /\ shownAt = StatusTick
    /\ timers = {[id |-> 2, due |-> shownAt + StatusHideDelay]}
    /\ now = shownAt + StatusHideDelay + StatusTick

\* Slot i sends GET /protected in this step.
SendsProtected(i) ==
    /\ tasks'[i].kind = "accessProtected"
    /\ Count(tasks'[i].calls, "protected") > Count(tasks[i].calls, "protected")

\* C21: when a popup accessProtected that found an expired pair sends GET
\* /protected, its /refresh request has been answered, the step writes the
\* pair of that answer to auth_tokens, and the request carries the access
\* token of that answer.
C21_ProtectedAfterRefreshStored ==
    [][\A i \in Slots :
        (/\ variant = "popup" /\ SendsProtected(i)
         /\ tasks'[i].found = "earlier")
            => /\ tasks[i].calls = <<"refresh">>
               /\ tasks[i].answers = 1
               /\ tasks[i].answer = "ok"
               /\ auth_tokens'.access_token = tasks[i].got.access
               /\ auth_tokens'.refresh_token = tasks[i].got.refresh
               /\ tasks'[i].sent = tasks[i].got.access
               /\ tasks'[i].sent.use = "access"]_vars

C21_Witness ==
    \E i \in Slots :
        /\ Popup(i) /\ tasks[i].found = "earlier" /\ tasks[i].pc = "protected"
        /\ tasks[i].calls = <<"refresh", "protected">>
        /\ tasks[i].sent = tasks[i].got.access
        /\ tasks[i].sent.id = 2
        /\ auth_tokens.access_token = tasks[i].sent

\* Invocations i and j of authenticatedFetch overlap, both were answered 401
\* and presented the same refresh token; the server accepted it from j and,
\* the token being spent, refused it to i, which has just ended; j is
\* waiting for the answer to the request it sent again.
RefusedAfterAccepted(i, j) ==
    /\ i # j /\ WebFetch(i) /\ WebFetch(j)
    /\ tasks[i].first = "401 with refresh token"
    /\ tasks[j].first = "401 with refresh token"
    /\ tasks[i].presented = tasks[j].presented
    /\ tasks[j].pc = "retry" /\ tasks[j].answer = "ok"
    /\ tasks[i].pc = "done" /\ tasks[i].answer = "non2xx"

\* C22 as stated: the refused refresh of i leaves the pair issued to j in
\* the two variables and under the two keys, and leaves the user logged in.
C22_RefusedRefreshKeepsPair ==
    \A i, j \in Slots :
        RefusedAfterAccepted(i, j)
            => /\ accessToken = tasks[j].sent
               /\ refreshToken.id = tasks[j].sent.id
               /\ lsAccess = accessToken /\ lsRefresh = refreshToken
               /\ username # NoKey
               /\ authHidden /\ ~welcomeHidden

\* No handler of the popup is awaiting an answer or a storage operation, and
\* init's checkLoginStatus has run.
PopupQuiescent ==
    /\ variant = "popup"
    /\ initPc = "done"
    /\ \A i \in Slots : IsOver(tasks[i])

\* C23 as stated: in every quiescent state of the popup the logout button is
\* visible exactly when an auth_tokens entry is stored.
C23_LogoutButtonIffStored ==
    PopupQuiescent => (~logoutHidden <=> auth_tokens # NoEntry)

\* No handler of the web page is awaiting an answer.
WebQuiescent == variant = "web" /\ \A i \in Slots : IsOver(tasks[i])

\* C24 as stated: in every quiescent state of the web page the welcome
\* section is the one shown exactly when the access token variable is not
\* empty, and the authentication section is the one shown otherwise.
C24_WelcomeIffAuthenticated ==
    WebQuiescent =>
        /\ ~welcomeHidden <=> Truthy(accessToken)
        /\ ~authHidden <=> ~Truthy(accessToken)

\* The value a key stands for: the stored string, or '' when it is absent.
StoredOrEmpty(v) == IF v = Null THEN EmptyString ELSE v

\* C25 as stated: on the web page the two variables always equal what is
\* stored under the two keys, the empty string standing for an absent key.
C25_VariablesMirrorStorage ==
    variant = "web" =>
        /\ accessToken = StoredOrEmpty(lsAccess)
        /\ refreshToken = StoredOrEmpty(lsRefresh)

\* C26: a GET /protected of the popup carries the access token of the pair
\* its invocation has just read from the cache, or, after a refresh, the
\* access token of the /refresh answer that invocation received; and an
\* invocation that reads no pair ends with no request sent.
C26_BearerFromCacheOrRefresh ==
    [][\A i \in Slots :
        /\ (variant = "popup" /\ SendsProtected(i))
                => /\ tasks'[i].sent.use = "access"
                   /\ \/ /\ tasks'[i].found \in {"equal", "later"}
                         /\ tasks[i].pc = "get"
                         /\ tasks'[i].sent = auth_tokens.access_token
                      \/ /\ tasks'[i].found = "earlier"
                         /\ tasks[i].answer = "ok"
                         /\ tasks'[i].sent = tasks[i].got.access
        /\ (variant = "popup" /\ tasks'[i].kind = "accessProtected"
            /\ tasks'[i].found = "absent")
                => tasks'[i].pc = "done" /\ tasks'[i].calls = <<>>]_vars

C26_Witness ==
    \E i \in Slots :
        /\ Popup(i) /\ tasks[i].found = "later" /\ tasks[i].pc = "protected"
        /\ tasks[i].sent = auth_tokens.access_token
        /\ tasks[i].sent.use = "access"

\* C27 as stated: a request of authenticatedFetch to the target URL always
\* carries an access token: with the variable empty no request is sent.
C27_WebFetchGatedOnToken ==
    \A i \in Slots :
        (WebFetch(i) /\ tasks[i].pc = "first")
            => Truthy(tasks[i].sent)


\* C28: getAccessToken, having read a pair, requests /refresh exactly when
\* the current time is strictly greater than the stored expiry; with the
\* current time equal to the expiry, or smaller, it hands back the cached
\* access token, which accessProtected sends, and requests no refresh.
C28_RefreshIffStrictlyLater ==
    [][\A i \in Slots :
        (/\ variant = "popup"
         /\ tasks[i].kind = "accessProtected" /\ tasks[i].pc = "get"
         /\ tasks'[i].found \in {"earlier", "equal", "later"})
            => /\ (tasks'[i].calls = <<"refresh">>) <=> (tasks'[i].found = "earlier")
               /\ tasks'[i].found \in {"equal", "later"}
                    => /\ tasks'[i].calls = <<"protected">>
                       /\ tasks'[i].sent = auth_tokens.access_token
               /\ tasks'[i].found = "earlier"
                    => /\ tasks'[i].pc = "refresh"
                       /\ tasks'[i].sent = auth_tokens.refresh_token]_vars

C28_Witness ==
    \E i, j \in Slots :
        /\ i # j
        /\ Popup(i) /\ tasks[i].found = "equal" /\ tasks[i].pc = "protected"
        /\ tasks[i].calls = <<"protected">>
        /\ Popup(j) /\ tasks[j].found = "earlier" /\ tasks[j].pc = "refresh"
        /\ tasks[j].calls = <<"refresh">>


\* C29: when /authenticate or /refresh answers 2xx with status 'ok' and an
\* access token whose payload cannot be decoded, the step that handles the
\* answer ends the invocation with an error status, and leaves the
\* auth_tokens entry and the visibility of the logout button as they were;
\* no further request is made.
C29_UndecodableTokenNotStored ==
    [][\A i \in Slots :
        (/\ variant = "popup"
         /\ tasks[i].pc \in {"authenticate", "refresh"}
         /\ tasks'[i].kind = tasks[i].kind
         /\ tasks'[i].answers = tasks[i].answers + 1
         /\ tasks'[i].answer = "okopaque")
            => /\ auth_tokens' = auth_tokens
               /\ logoutHidden' = logoutHidden
               /\ tasks'[i].pc = "done"
               /\ tasks'[i].type = "error"
               /\ tasks'[i].msg \notin {MsgAuthenticated, MsgProtectedOk}
               /\ tasks'[i].calls = tasks[i].calls]_vars

C29_Witness ==
    \E i \in Slots :
        /\ variant = "popup"
        /\ tasks[i].kind = "login" /\ tasks[i].pc = "done"
        /\ tasks[i].answer = "okopaque" /\ tasks[i].type = "error"
        /\ auth_tokens \in StoredPairs
        /\ logoutHidden


\* C30: register leaves the stored token pair as it is, at the click and at
\* the answer, whatever the answer, in both clients; an accepted register of
\* the popup writes the username key and nothing else.  So does an
\* accessProtected of the popup that finds an unexpired token: at the click,
\* as it sends GET /protected and when that request is answered, whatever
\* the answer.
C30_PairUntouchedByRegisterAndFreshAccess ==
    [][\A i \in Slots :
        /\ (variant = "popup" /\ (Clicked(i, "register") \/ Answered(i, "register")))
                => /\ auth_tokens' = auth_tokens
                   /\ logoutHidden' = logoutHidden
                   /\ IF tasks'[i].msg = MsgRegistered
                      THEN username' = tasks[i].uname
                      ELSE username' = username
        /\ (variant = "web" /\ (Clicked(i, "web_register") \/ Answered(i, "web_register")))
                => UNCHANGED <<accessToken, refreshToken, lsAccess, lsRefresh>>
        /\ (variant = "popup" /\ Clicked(i, "accessProtected"))
                => auth_tokens' = auth_tokens
        /\ (/\ variant = "popup"
            /\ tasks[i].kind = "accessProtected" /\ tasks'[i].kind = "accessProtected"
            /\ tasks'[i].found \in {"equal", "later"}
            /\ tasks'[i].pc # tasks[i].pc)
                => auth_tokens' = auth_tokens]_vars

C30_Witness ==
    \E i \in Slots :
        /\ variant = "popup"
        /\ tasks[i].kind = "register" /\ tasks[i].pc = "done"
        /\ tasks[i].msg = MsgRegistered
        /\ username = <<"a">>
        /\ auth_tokens \in StoredPairs


\* The handlers of the popup that report through the status line.
StatusHandlers == {"register", "login", "accessProtected"}

\* C31: every fetch and storage operation eventually resolving or
\* rejecting, each invocation of register, login and accessProtected
\* eventually returns, and as it returns it has called setStatus exactly
\* once, with a success or an error message, and not before: the step in
\* which it returns puts its message on the status line and starts one
\* timer, and a step in which no handler returns starts none.
C31_TerminatesWithOneStatus ==
    /\ [](\A i \in Slots :
            (variant = "popup" /\ tasks[i].kind \in StatusHandlers)
                => IF tasks[i].pc = "done"
                   THEN /\ tasks[i].statusCalls = 1
                        /\ tasks[i].type \in {"success", "error"}
                        /\ tasks[i].msg # MsgNone
                   ELSE tasks[i].statusCalls = 0)
    /\ [][variant = "popup" =>
            /\ \A i \in Slots :
                  (tasks'[i].kind \in StatusHandlers /\ tasks'[i].pc = "done")
                      => /\ nextTimer' = nextTimer + 1
                         /\ statusTimeout' = nextTimer
                         /\ statusText' = tasks'[i].msg
                         /\ statusClasses' = {tasks'[i].type, "show"}
            /\ (\A i \in Slots : tasks'[i].pc # "done")
                      => nextTimer' = nextTimer /\ statusText' = statusText]_vars
    /\ \A i \in Slots :
            (tasks[i].kind \in StatusHandlers /\ ~IsOver(tasks[i]))
                ~> (tasks[i].kind \in StatusHandlers /\ tasks[i].pc = "done")

C31_Witness ==
    \E i \in Slots :
        /\ variant = "popup"
        /\ tasks[i].kind = "register" /\ tasks[i].pc = "done"
        /\ tasks[i].answer = "threw"
        /\ tasks[i].statusCalls = 1 /\ tasks[i].type = "error"
        /\ statusText = MsgRegisterFailed /\ statusClasses = {"error", "show"}
        /\ nextTimer = 3


\* The logged-out state of the popup, and of the web page.
LoggedOutPopup == auth_tokens = NoEntry /\ username = NoKey /\ logoutHidden

LoggedOutWeb ==
    /\ accessToken = EmptyString /\ refreshToken = EmptyString
    /\ lsAccess = Null /\ lsRefresh = Null
    /\ username = NoKey
    /\ ~authHidden /\ welcomeHidden

\* No invocation gets a request it did not have before the step.
NoNewRequest ==
    \A j \in Slots : tasks'[j].calls \in {tasks[j].calls, <<>>}

\* C32: logout is local and idempotent in both clients.  It sends no HTTP
\* request, neither at its click nor as it completes; as it completes the
\* client is logged out whatever the state before: no token pair, no
\* username key, the logged-out UI; and a logout run on a client that is
\* already logged out changes none of these.
C32_LogoutLocalIdempotent ==
    [][/\ \A i \in Slots :
            /\ (variant = "popup" /\ Clicked(i, "logout"))
                    => /\ tasks'[i].calls = <<>>
                       /\ NoNewRequest
            /\ (variant = "popup" /\ tasks[i].kind = "logout"
                /\ tasks[i].pc = "remove" /\ tasks'[i].pc = "done")
                    => /\ tasks'[i].calls = <<>> /\ tasks'[i].answers = 0
                       /\ NoNewRequest
                       /\ LoggedOutPopup'
                       /\ LoggedOutPopup
                            => UNCHANGED <<auth_tokens, username, logoutHidden>>
       /\ web_logout
            => /\ NoNewRequest
               /\ LoggedOutWeb'
               /\ LoggedOutWeb => UNCHANGED <<webVars, username>>]_vars

\* A second logout in a row has completed: it started with the first one
\* completed and nothing else started since.
C32_Witness ==
    \E i \in Slots :
        /\ variant = "popup"
        /\ tasks[i].kind = "logout" /\ tasks[i].pc = "done"
        /\ tasks[i].afterLogout /\ quiet
        /\ tasks[i].calls = <<>>
        /\ LoggedOutPopup

====
